---- MODULE Spec2Model ----
(***************************************************************************)
(* Model of package mckio (WhisperingChaos/mckio).                         *)
(*                                                                         *)
(* Part I   - the capture session: FileCaptureStart, the stop function     *)
(*            built by ctrlCapture, and the three tasks wfilePipe          *)
(*            (Lifecycle), wfileCapture (Copy), cvrtToStringChan (Relay).  *)
(*            One action per statement; program counters are named after   *)
(*            the source line of the statement a task is about to run.     *)
(* Part II  - Rstrings.Read, the reader over a list of strings.            *)
(* Part III - Rchan.Read, the reader over a channel of strings.            *)
(*                                                                         *)
(* Line numbers (Lnnn) in Part I are those of the capture code whose       *)
(* FileCaptureStart returns (output, captureEnd, err); in Parts II and III *)
(* they are those of mckio.go.                                             *)
(*                                                                         *)
(* The control bus and the data bus (bus.B) are used as unbuffered         *)
(* channels: a send and the matching receive are one joint step, and the   *)
(* disconnect of the only sender closes the receiving side.                *)
(***************************************************************************)
EXTENDS Integers, Sequences, FiniteSets, TLC

\* ------------------------------------------------------------- bounds
\* most bytes the caller writes to the redirected sink during one session
MaxWrite == 2

\* most strings in the list given to NewRstrings
MaxList == 2

\* largest buffer passed to Rstrings.Read and to Rchan.Read
MaxBuf == 3

\* most messages sent on the source channel of an Rchan
MaxMsgs == 2

\* values of the bytes written to the sink
ByteVals == {"a", "b"}

\* ============================================================ Part I
VARIABLES
    caller,     \* position of the task that calls FileCaptureStart / captureEnd
    ret,        \* what FileCaptureStart returned: output, captureEnd, err
    osf,        \* *osf, the sink slot: "file" (the original) or "wrt"
    file,       \* the local `file` of FileCaptureStart / wfilePipe
    wrt,        \* pipe write end: "none", "open", "closed"
    rdr,        \* pipe read end:  "none", "open", "closed"
    pipeBuf,    \* bytes written to the pipe and not yet read
    lifecycle,  \* position of wfilePipe
    copy,       \* position of wfileCapture
    relay,      \* position of cvrtToStringChan
    buf,        \* wfileCapture's bytes.Buffer
    relayO,     \* cvrtToStringChan's loop variable o
    capCtrl,    \* control bus: "open" or "closed" (sender disconnected)
    capOut,     \* data bus: "open" or "closed" (sender disconnected)
    out,        \* the output stream: "none", "open", "closed"
    consumer,   \* receiver of the output stream: "recv" or "eof"
    delivered,  \* payloads received from the output stream, in order
    written,    \* history: bytes written to the sink while redirected
    hist        \* history: counts of wrt.Close(), slot restores, publications
                \*          on the data bus and close(outstr)

captureVars == <<caller, ret, osf, file, wrt, rdr, pipeBuf, lifecycle, copy,
                 relay, buf, relayO, capCtrl, capOut, out, consumer,
                 delivered, written, hist>>

NoReturn == [output |-> "unset", captureEnd |-> "unset", err |-> "unset"]

InitCapture ==
    /\ caller = "idle"
    /\ ret = NoReturn
    /\ osf = "file"
    /\ file = "unset"
    /\ wrt = "none"
    /\ rdr = "none"
    /\ pipeBuf = <<>>
    /\ lifecycle = "unborn"
    /\ copy = "unborn"
    /\ relay = "unborn"
    /\ buf = <<>>
    /\ relayO = <<>>
    /\ capCtrl = "none"
    /\ capOut = "none"
    /\ out = "none"
    /\ consumer = "recv"
    /\ delivered = <<>>
    /\ written = <<>>
    /\ hist = [wrtCloses |-> 0, restores |-> 0, published |-> 0,
               outCloses |-> 0]

\* ====================================================== Part II: state
VARIABLES
    m,          \* the Rstrings value: list, delim, block, lcur, ccur, dcur
    rdrState,   \* "ready", or "blocked" when a Read is held in m.block()
    rdrLast,    \* the last Read call: len(p), count, error, bytes, hooks run
    rdrOut,     \* history: all bytes returned by the Read calls, in order
    rdrHist     \* history: an earlier Read returned EOF / returned with the
                \*          cursor inside an element / inside a delimiter

\* ===================================================== Part III: state
VARIABLES
    rc,         \* the Rchan value: sCur, spos
    cmdLn,      \* the source channel: "nil", "open" or "closed", and the
                \* messages sent on it and not yet received
    rcCall,     \* the Read call in progress, if any, waiting in its receive
    rcLast,     \* the last Read call that returned
    rcOut,      \* history: all bytes returned by the Read calls, in order
    rcHist      \* history: the messages sent; whether a Read returned EOF

rchanVars == <<rc, cmdLn, rcCall, rcLast, rcOut, rcHist>>

readerVars == <<m, rdrState, rdrLast, rdrOut, rdrHist, rchanVars>>

\* L320-322: an unrecovered panic ends the process, and with it the caller
\* and every task; until then they all run.
Running == copy # "exited"

\* ------------------------------------------------------------------------
\* FileCaptureStart, run by the caller.
\* ------------------------------------------------------------------------

\* L265-272: both buses are created and their senders connected.
StartConnect ==
    /\ Running
    /\ caller = "idle"
    /\ caller' = "L273"
    /\ capCtrl' = "open"
    /\ capOut' = "open"
    /\ UNCHANGED <<ret, osf, file, wrt, rdr, pipeBuf, lifecycle, copy, relay,
                   buf, relayO, out, consumer, delivered, written, hist>>
    /\ UNCHANGED readerVars

\* L273: os.Pipe() succeeds.
StartPipeOk ==
    /\ Running
    /\ caller = "L273"
    /\ caller' = "L277"
    /\ rdr' = "open"
    /\ wrt' = "open"
    /\ UNCHANGED <<ret, osf, file, pipeBuf, lifecycle, copy, relay, buf,
                   relayO, capCtrl, capOut, out, consumer, delivered, written,
                   hist>>
    /\ UNCHANGED readerVars

\* Variant of StartPipeFail: a bare `return`, which hands out the captureEnd
\* already assigned to the named result at L267.
StartPipeFail_BareReturn ==
    /\ Running
    /\ caller = "L273"
    /\ caller' = "failed"
    /\ ret' = [output |-> "nil", captureEnd |-> "fn", err |-> "errp"]
    /\ UNCHANGED <<osf, file, wrt, rdr, pipeBuf, lifecycle, copy, relay, buf,
                   relayO, capCtrl, capOut, out, consumer, delivered, written,
                   hist>>
    /\ UNCHANGED readerVars

\* L273-276: os.Pipe() fails: return nil, nil, errp.
StartPipeFail ==
    /\ Running
    /\ caller = "L273"
    /\ caller' = "failed"
    /\ ret' = [output |-> "nil", captureEnd |-> "nil", err |-> "errp"]
    /\ UNCHANGED <<osf, file, wrt, rdr, pipeBuf, lifecycle, copy, relay, buf,
                   relayO, capCtrl, capOut, out, consumer, delivered, written,
                   hist>>
    /\ UNCHANGED readerVars

\* L277-284: file := *osf ; *osf = wrt.
StartSwap ==
    /\ Running
    /\ caller = "L277"
    /\ caller' = "L285"
    /\ file' = osf
    /\ osf' = "wrt"
    /\ UNCHANGED <<ret, wrt, rdr, pipeBuf, lifecycle, copy, relay, buf, relayO,
                   capCtrl, capOut, out, consumer, delivered, written, hist>>
    /\ UNCHANGED readerVars

\* L285: go wfilePipe(osf, file, rdr, wrt, pipeSender, dscnnt, endCapture).
StartGoPipe ==
    /\ Running
    /\ caller = "L285"
    /\ caller' = "L286"
    /\ lifecycle' = "L305"
    /\ UNCHANGED <<ret, osf, file, wrt, rdr, pipeBuf, copy, relay, buf, relayO,
                   capCtrl, capOut, out, consumer, delivered, written, hist>>
    /\ UNCHANGED readerVars

\* L286-287: out := make(chan string) ; go cvrtToStringChan(..., out).
StartGoRelay ==
    /\ Running
    /\ caller = "L286"
    /\ caller' = "L288"
    /\ out' = "open"
    /\ relay' = "L330"
    /\ UNCHANGED <<ret, osf, file, wrt, rdr, pipeBuf, lifecycle, copy, buf,
                   relayO, capCtrl, capOut, consumer, delivered, written, hist>>
    /\ UNCHANGED readerVars

\* L288: return out, captureEnd, nil.
StartReturn ==
    /\ Running
    /\ caller = "L288"
    /\ caller' = "capturing"
    /\ ret' = [output |-> "out", captureEnd |-> "fn", err |-> "nil"]
    /\ UNCHANGED <<osf, file, wrt, rdr, pipeBuf, lifecycle, copy, relay, buf,
                   relayO, capCtrl, capOut, out, consumer, delivered, written,
                   hist>>
    /\ UNCHANGED readerVars

\* ------------------------------------------------------------------------
\* The caller between start and stop: writes through the sink slot.
\* ------------------------------------------------------------------------
SinkWrite(b) ==
    /\ Running
    /\ caller = "capturing"
    /\ Len(written) < MaxWrite
    /\ osf = "wrt"
    /\ wrt = "open"
    /\ pipeBuf' = Append(pipeBuf, b)
    /\ written' = Append(written, b)
    /\ UNCHANGED <<caller, ret, osf, file, wrt, rdr, lifecycle, copy, relay,
                   buf, relayO, capCtrl, capOut, out, consumer, delivered,
                   hist>>
    /\ UNCHANGED readerVars

\* ------------------------------------------------------------------------
\* captureEnd, the closure built by ctrlCapture, run by the caller.
\* ------------------------------------------------------------------------

\* L295: the caller invokes captureEnd.
CaptureEndCall ==
    /\ Running
    /\ caller = "capturing"
    /\ ret.captureEnd = "fn"
    /\ caller' = "L297"
    /\ UNCHANGED <<ret, osf, file, wrt, rdr, pipeBuf, lifecycle, copy, relay,
                   buf, relayO, capCtrl, capOut, out, consumer, delivered,
                   written, hist>>
    /\ UNCHANGED readerVars

\* Variant of StopSignal1: a one-phase stop, captureEnd goes on to its
\* disconnect after the first send.
StopSignal1_SinglePhase ==
    /\ Running
    /\ caller = "L297"
    /\ lifecycle = "L308"
    /\ capCtrl = "open"
    /\ caller' = "L301"
    /\ lifecycle' = "L311"
    /\ UNCHANGED <<ret, osf, file, wrt, rdr, pipeBuf, copy, relay, buf, relayO,
                   capCtrl, capOut, out, consumer, delivered, written, hist>>
    /\ UNCHANGED readerVars

\* L297 with L308: first stopCapture <- true, received by wfilePipe.
StopSignal1 ==
    /\ Running
    /\ caller = "L297"
    /\ lifecycle = "L308"
    /\ capCtrl = "open"
    /\ caller' = "L299"
    /\ lifecycle' = "L311"
    /\ UNCHANGED <<ret, osf, file, wrt, rdr, pipeBuf, copy, relay, buf, relayO,
                   capCtrl, capOut, out, consumer, delivered, written, hist>>
    /\ UNCHANGED readerVars

\* Variant of StopSignal2: wfilePipe waits in a loop and goes back to its
\* first receive instead of returning.
StopSignal2_LoopsBack ==
    /\ Running
    /\ caller = "L299"
    /\ lifecycle = "L314"
    /\ capCtrl = "open"
    /\ caller' = "L301"
    /\ lifecycle' = "L308"
    /\ UNCHANGED <<ret, osf, file, wrt, rdr, pipeBuf, copy, relay, buf, relayO,
                   capCtrl, capOut, out, consumer, delivered, written, hist>>
    /\ UNCHANGED readerVars

\* L299 with L314: second stopCapture <- true, received by wfilePipe, which
\* then returns.
StopSignal2 ==
    /\ Running
    /\ caller = "L299"
    /\ lifecycle = "L314"
    /\ capCtrl = "open"
    /\ caller' = "L301"
    /\ lifecycle' = "done"
    /\ UNCHANGED <<ret, osf, file, wrt, rdr, pipeBuf, copy, relay, buf, relayO,
                   capCtrl, capOut, out, consumer, delivered, written, hist>>
    /\ UNCHANGED readerVars

\* L301: busDscnnt() ; captureEnd returns.
StopDisconnect ==
    /\ Running
    /\ caller = "L301"
    /\ caller' = "stopped"
    /\ capCtrl' = "closed"
    /\ UNCHANGED <<ret, osf, file, wrt, rdr, pipeBuf, lifecycle, copy, relay,
                   buf, relayO, capOut, out, consumer, delivered, written,
                   hist>>
    /\ UNCHANGED readerVars

\* L295, again: the caller invokes captureEnd a second time, after the
\* first invocation has returned.
CaptureEndCallAgain ==
    /\ Running
    /\ caller = "stopped"
    /\ ret.captureEnd = "fn"
    /\ caller' = "L297"
    /\ UNCHANGED <<ret, osf, file, wrt, rdr, pipeBuf, lifecycle, copy, relay,
                   buf, relayO, capCtrl, capOut, out, consumer, delivered,
                   written, hist>>
    /\ UNCHANGED readerVars

\* L297 after busDscnnt(): the send may fault (a send on a closed channel
\* panics); when it does not, it waits for a receiver and the caller stays
\* at L297.  A panic ends the process; the steps the other tasks can still
\* take here are steps they could have taken before it.
StopSendFaults ==
    /\ Running
    /\ caller = "L297"
    /\ capCtrl = "closed"
    /\ caller' = "panic"
    /\ UNCHANGED <<ret, osf, file, wrt, rdr, pipeBuf, lifecycle, copy, relay,
                   buf, relayO, capCtrl, capOut, out, consumer, delivered,
                   written, hist>>
    /\ UNCHANGED readerVars

\* ------------------------------------------------------------------------
\* wfilePipe, the Lifecycle task.
\* ------------------------------------------------------------------------

\* Variant of PipeGoCapture: wfilePipe does not wait for the first control
\* signal.
PipeGoCapture_NoWait ==
    /\ Running
    /\ lifecycle = "L305"
    /\ lifecycle' = "L311"
    /\ copy' = "L319"
    /\ UNCHANGED <<caller, ret, osf, file, wrt, rdr, pipeBuf, relay, buf,
                   relayO, capCtrl, capOut, out, consumer, delivered, written,
                   hist>>
    /\ UNCHANGED readerVars

\* L305: go wfileCapture(rdr, sender, dscnnt).
PipeGoCapture ==
    /\ Running
    /\ lifecycle = "L305"
    /\ lifecycle' = "L308"
    /\ copy' = "L319"
    /\ UNCHANGED <<caller, ret, osf, file, wrt, rdr, pipeBuf, relay, buf,
                   relayO, capCtrl, capOut, out, consumer, delivered, written,
                   hist>>
    /\ UNCHANGED readerVars

\* Variant of PipeCloseWrt: wfilePipe closes the read end instead of the
\* write end.
PipeCloseWrt_ClosesReadEnd ==
    /\ Running
    /\ lifecycle = "L311"
    /\ lifecycle' = "L312"
    /\ rdr' = "closed"
    /\ UNCHANGED <<caller, ret, osf, file, wrt, pipeBuf, copy, relay, buf,
                   relayO, capCtrl, capOut, out, consumer, delivered, written,
                   hist>>
    /\ UNCHANGED readerVars

\* L311: wrt.Close().
PipeCloseWrt ==
    /\ Running
    /\ lifecycle = "L311"
    /\ lifecycle' = "L312"
    /\ wrt' = "closed"
    /\ hist' = [hist EXCEPT !.wrtCloses = @ + 1]
    /\ UNCHANGED <<caller, ret, osf, file, rdr, pipeBuf, copy, relay, buf,
                   relayO, capCtrl, capOut, out, consumer, delivered, written>>
    /\ UNCHANGED readerVars

\* L312: *osf = file.
PipeRestore ==
    /\ Running
    /\ lifecycle = "L312"
    /\ lifecycle' = "L314"
    /\ osf' = file
    /\ hist' = [hist EXCEPT !.restores = @ + 1]
    /\ UNCHANGED <<caller, ret, file, wrt, rdr, pipeBuf, copy, relay, buf,
                   relayO, capCtrl, capOut, out, consumer, delivered, written>>
    /\ UNCHANGED readerVars

\* ------------------------------------------------------------------------
\* wfileCapture, the Copy task.
\* ------------------------------------------------------------------------

\* Variant of CopyRead: each read replaces the buffer instead of appending
\* to it.
CopyRead_Overwrite(n) ==
    /\ copy = "L319"
    /\ rdr = "open"
    /\ n \in 1..Len(pipeBuf)
    /\ buf' = SubSeq(pipeBuf, 1, n)
    /\ pipeBuf' = SubSeq(pipeBuf, n + 1, Len(pipeBuf))
    /\ UNCHANGED <<caller, ret, osf, file, wrt, rdr, lifecycle, copy, relay,
                   relayO, capCtrl, capOut, out, consumer, delivered, written,
                   hist>>
    /\ UNCHANGED readerVars

\* L319: one read of io.Copy: n of the bytes waiting in the pipe.
CopyRead(n) ==
    /\ copy = "L319"
    /\ rdr = "open"
    /\ n \in 1..Len(pipeBuf)
    /\ buf' = buf \o SubSeq(pipeBuf, 1, n)
    /\ pipeBuf' = SubSeq(pipeBuf, n + 1, Len(pipeBuf))
    /\ UNCHANGED <<caller, ret, osf, file, wrt, rdr, lifecycle, copy, relay,
                   relayO, capCtrl, capOut, out, consumer, delivered, written,
                   hist>>
    /\ UNCHANGED readerVars

\* Variant of CopyEOF: the read reports end of file as soon as the pipe is
\* empty, whether or not its write end is closed.
CopyEOF_OnEmptyPipe ==
    /\ copy = "L319"
    /\ rdr = "open"
    /\ pipeBuf = <<>>
    /\ copy' = "L323"
    /\ UNCHANGED <<caller, ret, osf, file, wrt, rdr, pipeBuf, lifecycle, relay,
                   buf, relayO, capCtrl, capOut, out, consumer, delivered,
                   written, hist>>
    /\ UNCHANGED readerVars

\* L319-322: io.Copy sees end of file: the pipe is empty and its write end
\* is closed.  It returns sz = len(buf), err = nil (for err # nil see
\* CopyPanic).
CopyEOF ==
    /\ copy = "L319"
    /\ rdr = "open"
    /\ pipeBuf = <<>>
    /\ wrt = "closed"
    /\ copy' = "L323"
    /\ UNCHANGED <<caller, ret, osf, file, wrt, rdr, pipeBuf, lifecycle, relay,
                   buf, relayO, capCtrl, capOut, out, consumer, delivered,
                   written, hist>>
    /\ UNCHANGED readerVars

\* L319-322 and L317: a read of the pipe fails, io.Copy returns the error
\* and wfileCapture panics.  The deferred dscnnt() runs while it panics;
\* rdr.Close() and the send of the payload are not reached.
CopyPanic ==
    /\ copy = "L319"
    /\ rdr = "open"
    /\ copy' = "panicked"
    /\ capOut' = "closed"
    /\ UNCHANGED <<caller, ret, osf, file, wrt, rdr, pipeBuf, lifecycle, relay,
                   buf, relayO, capCtrl, out, consumer, delivered, written,
                   hist>>
    /\ UNCHANGED readerVars

\* L321: nothing recovers the panic, so the runtime ends the process.
ProcessExit ==
    /\ copy = "panicked"
    /\ copy' = "exited"
    /\ UNCHANGED <<caller, ret, osf, file, wrt, rdr, pipeBuf, lifecycle, relay,
                   buf, relayO, capCtrl, capOut, out, consumer, delivered,
                   written, hist>>
    /\ UNCHANGED readerVars

\* Variant of CopyCloseRdr: dscnnt() is called here, before the payload is
\* sent, instead of being deferred.
CopyCloseRdr_DisconnectFirst ==
    /\ copy = "L323"
    /\ copy' = "L324"
    /\ rdr' = "closed"
    /\ capOut' = "closed"
    /\ UNCHANGED <<caller, ret, osf, file, wrt, pipeBuf, lifecycle, relay, buf,
                   relayO, capCtrl, out, consumer, delivered, written, hist>>
    /\ UNCHANGED readerVars

\* L323: rdr.Close().
CopyCloseRdr ==
    /\ copy = "L323"
    /\ copy' = "L324"
    /\ rdr' = "closed"
    /\ UNCHANGED <<caller, ret, osf, file, wrt, pipeBuf, lifecycle, relay, buf,
                   relayO, capCtrl, capOut, out, consumer, delivered, written,
                   hist>>
    /\ UNCHANGED readerVars

\* L324: sz > 0 is false: nothing is published.
CopySkip ==
    /\ copy = "L324"
    /\ ~ (Len(buf) > 0)
    /\ copy' = "L317"
    /\ UNCHANGED <<caller, ret, osf, file, wrt, rdr, pipeBuf, lifecycle, relay,
                   buf, relayO, capCtrl, capOut, out, consumer, delivered,
                   written, hist>>
    /\ UNCHANGED readerVars

\* L324-325 with L330: capture <- buf.String(), received by the range loop
\* of cvrtToStringChan.
CopyPublish ==
    /\ copy = "L324"
    /\ Len(buf) > 0
    /\ relay = "L330"
    /\ capOut = "open"
    /\ copy' = "L317"
    /\ relay' = "L331"
    /\ relayO' = buf
    /\ hist' = [hist EXCEPT !.published = @ + 1]
    /\ UNCHANGED <<caller, ret, osf, file, wrt, rdr, pipeBuf, lifecycle, buf,
                   capCtrl, capOut, out, consumer, delivered, written>>
    /\ UNCHANGED readerVars

\* Variant of CopyDisconnect: wfileCapture returns without disconnecting
\* from the data bus.
CopyDisconnect_Missing ==
    /\ copy = "L317"
    /\ copy' = "done"
    /\ UNCHANGED <<caller, ret, osf, file, wrt, rdr, pipeBuf, lifecycle, relay,
                   buf, relayO, capCtrl, capOut, out, consumer, delivered,
                   written, hist>>
    /\ UNCHANGED readerVars

\* L317: the deferred dscnnt() runs as wfileCapture returns.
CopyDisconnect ==
    /\ copy = "L317"
    /\ copy' = "done"
    /\ capOut' = "closed"
    /\ UNCHANGED <<caller, ret, osf, file, wrt, rdr, pipeBuf, lifecycle, relay,
                   buf, relayO, capCtrl, out, consumer, delivered, written,
                   hist>>
    /\ UNCHANGED readerVars

\* ------------------------------------------------------------------------
\* cvrtToStringChan, the Relay task, and the receiver of its output stream.
\* ------------------------------------------------------------------------

\* L331: outstr <- o.(string), received by the holder of the output stream.
RelayForward ==
    /\ Running
    /\ relay = "L331"
    /\ out = "open"
    /\ ret.output = "out"
    /\ consumer = "recv"
    /\ relay' = "L330"
    /\ delivered' = Append(delivered, relayO)
    /\ UNCHANGED <<caller, ret, osf, file, wrt, rdr, pipeBuf, lifecycle, copy,
                   buf, relayO, capCtrl, capOut, out, consumer, written, hist>>
    /\ UNCHANGED readerVars

\* L330: the range loop ends because the data bus is closed.
RelayRangeEnd ==
    /\ Running
    /\ relay = "L330"
    /\ capOut = "closed"
    /\ relay' = "L329"
    /\ UNCHANGED <<caller, ret, osf, file, wrt, rdr, pipeBuf, lifecycle, copy,
                   buf, relayO, capCtrl, capOut, out, consumer, delivered,
                   written, hist>>
    /\ UNCHANGED readerVars

\* L329: the deferred close(outstr) runs as cvrtToStringChan returns.
RelayClose ==
    /\ Running
    /\ relay = "L329"
    /\ relay' = "done"
    /\ out' = "closed"
    /\ hist' = [hist EXCEPT !.outCloses = @ + 1]
    /\ UNCHANGED <<caller, ret, osf, file, wrt, rdr, pipeBuf, lifecycle, copy,
                   buf, relayO, capCtrl, capOut, consumer, delivered, written>>
    /\ UNCHANGED readerVars

\* The holder of the output stream receives from it and finds it closed.
OutputClosedSeen ==
    /\ Running
    /\ ret.output = "out"
    /\ consumer = "recv"
    /\ out = "closed"
    /\ consumer' = "eof"
    /\ UNCHANGED <<caller, ret, osf, file, wrt, rdr, pipeBuf, lifecycle, copy,
                   relay, buf, relayO, capCtrl, capOut, out, delivered,
                   written, hist>>
    /\ UNCHANGED readerVars

\* ============================================================ Part II
\* Rstrings: an io.Reader over a list of strings.

\* the strings the lists are built from, and the delimiters tried
Strings == {<<>>, <<"a">>, <<"a", "b">>, <<"b", "a", "b">>}

Lists == UNION {[1..k -> Strings] : k \in 0..MaxList}

\* The behaviors handed to NewRstrings.  caps lists the interfaces the value
\* implements; delim is what BehaviorDelim returns; blockAtEnd says whether
\* BehaviorBlockAtEnd returns or, like select {}, never does.
nil == [caps |-> {}, delim |-> <<>>, blockAtEnd |-> "returns"]

delimAdd(d) ==
    [caps |-> {"BehaviorDelimer"}, delim |-> d, blockAtEnd |-> "returns"]

stdin ==
    [caps |-> {"BehaviorDelimer", "BehaviorBlockAtEnder",
               "BehaviorBlockBeforeEachReader"},
     delim |-> <<"n">>, blockAtEnd |-> "forever"]

Behaviors == {nil, stdin, delimAdd(<<"n">>), delimAdd(<<"x", "y">>)}

\* L91-109.
NewRstrings(list, behavior) ==
    [list  |-> list,
     delim |-> IF "BehaviorDelimer" \in behavior.caps
                 THEN behavior.delim ELSE <<>>,
     block |-> IF "BehaviorBlockAtEnder" \in behavior.caps
                 THEN behavior.blockAtEnd ELSE "returns",
     blockBefore |-> IF "BehaviorBlockBeforeEachReader" \in behavior.caps
                 THEN "sleeps" ELSE "returns",
     lcur |-> 0, ccur |-> 0, dcur |-> 0]

\* L161-163 and L170-172.
NewConsole(cmdLns) == NewRstrings(cmdLns, stdin)

NewNonBlockNoDelim(cmdLns) == NewRstrings(cmdLns, nil)

\* The outcome of one Read call: the reader afterwards, the count and error
\* returned, the bytes put in p[0:count], the hooks run after blockBefore,
\* and whether the call returns at all.
Outcome(mm, cnt, err, data, calls, returns) ==
    [m |-> mm, n |-> cnt, err |-> err, data |-> data, calls |-> calls,
     returns |-> returns]

\* Variant of ElemFull: the byte under the cursor is stepped over when the
\* buffer is full.
ElemFull_SkipsByte(mm, p, plen) ==
    Outcome([mm EXCEPT !.ccur = @ + 1], plen, "nil", p, <<>>, TRUE)

\* L125-130, else branch: the buffer is full inside an element.
ElemFull(mm, p, plen) ==
    Outcome(mm, plen, "nil", p, <<>>, TRUE)

\* Variant of DelimFull: the delimiter cursor is reset when the buffer is
\* full.
DelimFull_Restart(mm, p, plen) ==
    Outcome([mm EXCEPT !.dcur = 0], plen, "nil", p, <<>>, TRUE)

\* L133-138, else branch: the buffer is full inside a delimiter.
DelimFull(mm, p, plen) ==
    Outcome(mm, plen, "nil", p, <<>>, TRUE)

\* Variant of Exhausted: end-of-stream is reported by the call that copies
\* the last bytes.
Exhausted_EOFWithData(mm, p) ==
    IF Len(p) < 1
      THEN Outcome(mm, 0, "EOF", <<>>, <<"block">>, mm.block = "returns")
      ELSE Outcome(mm, Len(p), "EOF", p, <<>>, TRUE)

\* Variant of Exhausted: the end hook runs whenever the list is exhausted,
\* also in the call that copied the last bytes.
Exhausted_BlockWithData(mm, p) ==
    IF Len(p) < 1
      THEN Outcome(mm, 0, "EOF", <<>>, <<"block">>, mm.block = "returns")
      ELSE Outcome(mm, Len(p), "nil", p, <<"block">>, mm.block = "returns")

\* L143-148: the list is exhausted.
Exhausted(mm, p) ==
    IF Len(p) < 1
      THEN Outcome(mm, 0, "EOF", <<>>, <<"block">>, mm.block = "returns")
      ELSE Outcome(mm, Len(p), "nil", p, <<>>, TRUE)

\* Variant of Fill: the call returns at the end of an element and its
\* delimiter once it has copied something, instead of going on to the next
\* element.
RECURSIVE Fill_ReturnsAtElementEnd(_, _, _)
Fill_ReturnsAtElementEnd(mm, p, plen) ==
    IF mm.lcur < Len(mm.list)
      THEN IF mm.ccur < Len(mm.list[mm.lcur + 1])
             THEN IF Len(p) < plen
                    THEN Fill_ReturnsAtElementEnd(
                              [mm EXCEPT !.ccur = @ + 1],
                              Append(p, mm.list[mm.lcur + 1][mm.ccur + 1]),
                              plen)
                    ELSE ElemFull(mm, p, plen)
             ELSE IF mm.dcur < Len(mm.delim)
                    THEN IF Len(p) < plen
                           THEN Fill_ReturnsAtElementEnd(
                                     [mm EXCEPT !.dcur = @ + 1],
                                     Append(p, mm.delim[mm.dcur + 1]),
                                     plen)
                           ELSE DelimFull(mm, p, plen)
                    ELSE LET nxt == [mm EXCEPT !.dcur = 0, !.ccur = 0,
                                               !.lcur = @ + 1]
                         IN  IF Len(p) > 0
                               THEN Outcome(nxt, Len(p), "nil", p, <<>>, TRUE)
                               ELSE Fill_ReturnsAtElementEnd(nxt, p, plen)
      ELSE Exhausted(mm, p)

\* Variant of Fill: m.ccur is not reset when the loop moves on to the next
\* element.
RECURSIVE Fill_KeepsElementCursor(_, _, _)
Fill_KeepsElementCursor(mm, p, plen) ==
    IF mm.lcur < Len(mm.list)
      THEN IF mm.ccur < Len(mm.list[mm.lcur + 1])
             THEN IF Len(p) < plen
                    THEN Fill_KeepsElementCursor(
                              [mm EXCEPT !.ccur = @ + 1],
                              Append(p, mm.list[mm.lcur + 1][mm.ccur + 1]),
                              plen)
                    ELSE ElemFull(mm, p, plen)
             ELSE IF mm.dcur < Len(mm.delim)
                    THEN IF Len(p) < plen
                           THEN Fill_KeepsElementCursor(
                                     [mm EXCEPT !.dcur = @ + 1],
                                     Append(p, mm.delim[mm.dcur + 1]),
                                     plen)
                           ELSE DelimFull(mm, p, plen)
                    ELSE Fill_KeepsElementCursor(
                              [mm EXCEPT !.dcur = 0, !.lcur = @ + 1],
                              p, plen)
      ELSE Exhausted(mm, p)

\* L123-142: the loops of Read; p holds the bytes copied so far (pi = Len(p)).
RECURSIVE Fill(_, _, _)
Fill(mm, p, plen) ==
    IF mm.lcur < Len(mm.list)
      THEN IF mm.ccur < Len(mm.list[mm.lcur + 1])
             THEN IF Len(p) < plen
                    THEN Fill([mm EXCEPT !.ccur = @ + 1],
                              Append(p, mm.list[mm.lcur + 1][mm.ccur + 1]),
                              plen)
                    ELSE ElemFull(mm, p, plen)
             ELSE IF mm.dcur < Len(mm.delim)
                    THEN IF Len(p) < plen
                           THEN Fill([mm EXCEPT !.dcur = @ + 1],
                                     Append(p, mm.delim[mm.dcur + 1]),
                                     plen)
                           ELSE DelimFull(mm, p, plen)
                    ELSE Fill([mm EXCEPT !.dcur = 0, !.ccur = 0,
                                         !.lcur = @ + 1], p, plen)
      ELSE Exhausted(mm, p)

\* Variant of Read: no early return for an empty buffer.
Read_NoEmptyBufferReturn(mm, plen) ==
    LET r == Fill(mm, <<>>, plen)
    IN  [r EXCEPT !.calls = <<"blockBefore">> \o @]

\* L115-149: Read(p) with len(p) = plen.
Read(mm, plen) ==
    IF plen = 0
      THEN Outcome(mm, 0, "nil", <<>>, <<>>, TRUE)
      ELSE LET r == Fill(mm, <<>>, plen)
           IN  [r EXCEPT !.calls = <<"blockBefore">> \o @]

NoRead ==
    [len |-> 0, n |-> 0, err |-> "nil", data |-> <<>>, calls |-> <<>>,
     afterEOF |-> FALSE]

NoHist == [eofSeen |-> FALSE, splitElem |-> FALSE, splitDelim |-> FALSE]

\* No reader in use (the state of Part II while a capture session runs).
InitReaderUnused ==
    /\ m = NewNonBlockNoDelim(<<>>)
    /\ rdrState = "ready"
    /\ rdrLast = NoRead
    /\ rdrOut = <<>>
    /\ rdrHist = NoHist

\* A reader fresh from NewRstrings, for every list and behavior.
InitRstrings ==
    /\ InitCapture
    /\ \E list \in Lists, behavior \in Behaviors :
          m = NewRstrings(list, behavior)
    /\ rdrState = "ready"
    /\ rdrLast = NoRead
    /\ rdrOut = <<>>
    /\ rdrHist = NoHist
    /\ rc = [sCur |-> <<>>, spos |-> 0]
    /\ cmdLn = [state |-> "nil", queue |-> <<>>]
    /\ rcCall = [pc |-> "idle", len |-> 0, recvs |-> 0,
                 entry |-> [sCur |-> <<>>, spos |-> 0],
                 entryChan |-> [state |-> "nil", queue |-> <<>>]]
    /\ rcLast = [made |-> FALSE, len |-> 0, n |-> 0, err |-> "nil",
                 data |-> <<>>, recvs |-> 0,
                 entry |-> [sCur |-> <<>>, spos |-> 0],
                 entryChan |-> [state |-> "nil", queue |-> <<>>],
                 afterEOF |-> FALSE]
    /\ rcOut = <<>>
    /\ rcHist = [sent |-> <<>>, eofSeen |-> FALSE]

\* One call m.Read(p) with len(p) = plen.
RstringsRead(plen) ==
    /\ rdrState = "ready"
    /\ LET r == Read(m, plen)
       IN  /\ m' = r.m
           /\ rdrState' = IF r.returns THEN "ready" ELSE "blocked"
           /\ rdrLast' = [len |-> plen,
                          n |-> r.n,
                          err |-> IF r.returns THEN r.err ELSE "none",
                          data |-> r.data,
                          calls |-> r.calls,
                          afterEOF |-> rdrHist.eofSeen]
           /\ rdrOut' = rdrOut \o r.data
           /\ rdrHist' =
                [eofSeen |-> rdrHist.eofSeen \/ (r.returns /\ r.err = "EOF"),
                 splitElem |-> rdrHist.splitElem \/ r.m.ccur > 0,
                 splitDelim |-> rdrHist.splitDelim \/ r.m.dcur > 0]
    /\ UNCHANGED captureVars
    /\ UNCHANGED rchanVars

NextRstrings == \E plen \in 0..MaxBuf : RstringsRead(plen)

\* =========================================================== Part III
\* Rchan: an io.Reader over a channel of strings.

\* L205-207.
NewChan ==
    [sCur |-> <<>>, spos |-> 0]

\* L221-223: the copy loop; p holds the bytes copied so far (ip = Len(p)).
RECURSIVE CopyPending(_, _, _)
CopyPending(r, p, plen) ==
    IF r.spos < Len(r.sCur) /\ Len(p) < plen
      THEN CopyPending([r EXCEPT !.spos = @ + 1],
                       Append(p, r.sCur[r.spos + 1]), plen)
      ELSE [rc |-> r, p |-> p]

NoCall == [pc |-> "idle", len |-> 0, recvs |-> 0,
           entry |-> NewChan, entryChan |-> [state |-> "nil", queue |-> <<>>]]

\* the record of a Read call that returns
Returned(plen, cnt, err, data, recvs, entry, entryChan) ==
    [made |-> TRUE, len |-> plen, n |-> cnt, err |-> err, data |-> data,
     recvs |-> recvs, entry |-> entry, entryChan |-> entryChan,
     afterEOF |-> rcHist.eofSeen]

NoReturnedCall ==
    [made |-> FALSE, len |-> 0, n |-> 0, err |-> "nil", data |-> <<>>,
     recvs |-> 0, entry |-> NewChan,
     entryChan |-> [state |-> "nil", queue |-> <<>>], afterEOF |-> FALSE]

InitRchanUnused ==
    /\ rc = NewChan
    /\ cmdLn = [state |-> "nil", queue |-> <<>>]
    /\ rcCall = NoCall
    /\ rcLast = NoReturnedCall
    /\ rcOut = <<>>
    /\ rcHist = [sent |-> <<>>, eofSeen |-> FALSE]

\* A reader fresh from NewChan, over a nil channel or over an open one.
InitRchan ==
    /\ InitCapture
    /\ m = NewNonBlockNoDelim(<<>>)
    /\ rdrState = "ready"
    /\ rdrLast = NoRead
    /\ rdrOut = <<>>
    /\ rdrHist = NoHist
    /\ rc = NewChan
    /\ \E st \in {"nil", "open"} : cmdLn = [state |-> st, queue |-> <<>>]
    /\ rcCall = NoCall
    /\ rcLast = NoReturnedCall
    /\ rcOut = <<>>
    /\ rcHist = [sent |-> <<>>, eofSeen |-> FALSE]

\* The owner of the channel sends msg.  The queue holds what was sent and is
\* not yet received: the buffer of the channel, or the sends still waiting.
ChanSend(msg) ==
    /\ cmdLn.state = "open"
    /\ Len(rcHist.sent) < MaxMsgs
    /\ cmdLn' = [cmdLn EXCEPT !.queue = Append(@, msg)]
    /\ rcHist' = [rcHist EXCEPT !.sent = Append(@, msg)]
    /\ UNCHANGED <<rc, rcCall, rcLast, rcOut>>
    /\ UNCHANGED <<captureVars, m, rdrState, rdrLast, rdrOut, rdrHist>>

\* The owner of the channel closes it.
ChanClose ==
    /\ cmdLn.state = "open"
    /\ cmdLn' = [cmdLn EXCEPT !.state = "closed"]
    /\ UNCHANGED <<rc, rcCall, rcLast, rcOut, rcHist>>
    /\ UNCHANGED <<captureVars, m, rdrState, rdrLast, rdrOut, rdrHist>>

\* Variant of RchanReadCall: no early return for an empty buffer.
RchanReadCall_NoEmptyBufferReturn(plen) ==
    /\ rcCall.pc = "idle"
    /\ LET c == CopyPending(rc, <<>>, plen)
       IN  IF Len(c.p) > 0
             THEN /\ rc' = c.rc
                  /\ rcLast' = Returned(plen, Len(c.p), "nil", c.p, 0, rc,
                                        cmdLn)
                  /\ rcOut' = rcOut \o c.p
                  /\ UNCHANGED rcCall
             ELSE /\ rc' = c.rc
                  /\ rcCall' = [pc |-> "L230", len |-> plen, recvs |-> 0,
                                entry |-> rc, entryChan |-> cmdLn]
                  /\ UNCHANGED <<rcLast, rcOut>>
    /\ UNCHANGED <<cmdLn, rcHist>>
    /\ UNCHANGED <<captureVars, m, rdrState, rdrLast, rdrOut, rdrHist>>

\* Variant of RchanReadCall: with room left in the buffer and a message
\* waiting, the call takes that message too.
RchanReadCall_FillsFromNextMessage(plen) ==
    /\ rcCall.pc = "idle"
    /\ plen > 0
    /\ LET c == CopyPending(rc, <<>>, plen)
       IN  IF Len(c.p) > 0
             THEN IF Len(c.p) < plen /\ cmdLn.queue # <<>>
                    THEN LET d == CopyPending(
                                    [sCur |-> Head(cmdLn.queue), spos |-> 0],
                                    c.p, plen)
                         IN  /\ rc' = d.rc
                             /\ cmdLn' = [cmdLn EXCEPT !.queue = Tail(@)]
                             /\ rcLast' = Returned(plen, Len(d.p), "nil",
                                                   d.p, 1, rc, cmdLn)
                             /\ rcOut' = rcOut \o d.p
                             /\ UNCHANGED rcCall
                    ELSE /\ rc' = c.rc
                         /\ rcLast' = Returned(plen, Len(c.p), "nil", c.p, 0,
                                               rc, cmdLn)
                         /\ rcOut' = rcOut \o c.p
                         /\ UNCHANGED <<rcCall, cmdLn>>
             ELSE /\ rc' = c.rc
                  /\ rcCall' = [pc |-> "L230", len |-> plen, recvs |-> 0,
                                entry |-> rc, entryChan |-> cmdLn]
                  /\ UNCHANGED <<rcLast, rcOut, cmdLn>>
    /\ UNCHANGED rcHist
    /\ UNCHANGED <<captureVars, m, rdrState, rdrLast, rdrOut, rdrHist>>

\* L213-230: a call rc.Read(p) with len(p) = plen, up to its return or to
\* its first receive from the channel.
RchanReadCall(plen) ==
    /\ rcCall.pc = "idle"
    /\ IF plen = 0
         THEN /\ rcLast' = Returned(0, 0, "nil", <<>>, 0, rc, cmdLn)
              /\ UNCHANGED <<rc, rcCall, rcOut>>
         ELSE LET c == CopyPending(rc, <<>>, plen)
              IN  IF Len(c.p) > 0
                    THEN /\ rc' = c.rc
                         /\ rcLast' = Returned(plen, Len(c.p), "nil", c.p, 0,
                                               rc, cmdLn)
                         /\ rcOut' = rcOut \o c.p
                         /\ UNCHANGED rcCall
                    ELSE /\ rc' = c.rc
                         /\ rcCall' = [pc |-> "L230", len |-> plen,
                                       recvs |-> 0, entry |-> rc,
                                       entryChan |-> cmdLn]
                         /\ UNCHANGED <<rcLast, rcOut>>
    /\ UNCHANGED <<cmdLn, rcHist>>
    /\ UNCHANGED <<captureVars, m, rdrState, rdrLast, rdrOut, rdrHist>>

\* Variant of RchanReceiveMsg: the call returns after one receive, with
\* (0, nil) when the message is empty.
RchanReceiveMsg_ReturnsOnEmptyMessage ==
    /\ rcCall.pc = "L230"
    /\ cmdLn.state # "nil"
    /\ cmdLn.queue # <<>>
    /\ cmdLn' = [cmdLn EXCEPT !.queue = Tail(@)]
    /\ LET c == CopyPending([sCur |-> Head(cmdLn.queue), spos |-> 0], <<>>,
                            rcCall.len)
       IN  /\ rc' = c.rc
           /\ rcLast' = Returned(rcCall.len, Len(c.p), "nil", c.p,
                                 rcCall.recvs + 1, rcCall.entry,
                                 rcCall.entryChan)
           /\ rcOut' = rcOut \o c.p
           /\ rcCall' = NoCall
    /\ UNCHANGED rcHist
    /\ UNCHANGED <<captureVars, m, rdrState, rdrLast, rdrOut, rdrHist>>

\* L230-235 and L221-228: the receive yields a message; the call copies from
\* it and returns, or, the message being empty, receives again.
RchanReceiveMsg ==
    /\ rcCall.pc = "L230"
    /\ cmdLn.state # "nil"
    /\ cmdLn.queue # <<>>
    /\ cmdLn' = [cmdLn EXCEPT !.queue = Tail(@)]
    /\ LET c == CopyPending([sCur |-> Head(cmdLn.queue), spos |-> 0], <<>>,
                            rcCall.len)
       IN  IF Len(c.p) > 0
             THEN /\ rc' = c.rc
                  /\ rcLast' = Returned(rcCall.len, Len(c.p), "nil", c.p,
                                        rcCall.recvs + 1, rcCall.entry,
                                        rcCall.entryChan)
                  /\ rcOut' = rcOut \o c.p
                  /\ rcCall' = NoCall
             ELSE /\ rc' = c.rc
                  /\ rcCall' = [rcCall EXCEPT !.recvs = @ + 1]
                  /\ UNCHANGED <<rcLast, rcOut>>
    /\ UNCHANGED rcHist
    /\ UNCHANGED <<captureVars, m, rdrState, rdrLast, rdrOut, rdrHist>>

\* Variant of RchanReceiveClosed: a closed channel is answered with
\* (0, nil).
RchanReceiveClosed_NoError ==
    /\ rcCall.pc = "L230"
    /\ cmdLn.state = "closed"
    /\ cmdLn.queue = <<>>
    /\ rc' = [rc EXCEPT !.sCur = <<>>]
    /\ rcLast' = Returned(rcCall.len, 0, "nil", <<>>, rcCall.recvs + 1,
                          rcCall.entry, rcCall.entryChan)
    /\ rcCall' = NoCall
    /\ UNCHANGED <<cmdLn, rcOut, rcHist>>
    /\ UNCHANGED <<captureVars, m, rdrState, rdrLast, rdrOut, rdrHist>>

\* Variant of RchanReceiveClosed: the received value is dropped and the
\* offset reset before ok is tested, so the last message is pending again.
RchanReceiveClosed_RewindsPending ==
    /\ rcCall.pc = "L230"
    /\ cmdLn.state = "closed"
    /\ cmdLn.queue = <<>>
    /\ rc' = [rc EXCEPT !.spos = 0]
    /\ rcLast' = Returned(rcCall.len, 0, "EOF", <<>>, rcCall.recvs + 1,
                          rcCall.entry, rcCall.entryChan)
    /\ rcCall' = NoCall
    /\ rcHist' = [rcHist EXCEPT !.eofSeen = TRUE]
    /\ UNCHANGED <<cmdLn, rcOut>>
    /\ UNCHANGED <<captureVars, m, rdrState, rdrLast, rdrOut, rdrHist>>

\* L230-233: the receive finds the channel closed and empty: sCur takes the
\* zero value, spos is left as it is, and the call returns (0, EOF).
RchanReceiveClosed ==
    /\ rcCall.pc = "L230"
    /\ cmdLn.state = "closed"
    /\ cmdLn.queue = <<>>
    /\ rc' = [rc EXCEPT !.sCur = <<>>]
    /\ rcLast' = Returned(rcCall.len, 0, "EOF", <<>>, rcCall.recvs + 1,
                          rcCall.entry, rcCall.entryChan)
    /\ rcCall' = NoCall
    /\ rcHist' = [rcHist EXCEPT !.eofSeen = TRUE]
    /\ UNCHANGED <<cmdLn, rcOut>>
    /\ UNCHANGED <<captureVars, m, rdrState, rdrLast, rdrOut, rdrHist>>

NextRchan ==
    \/ \E msg \in Strings : ChanSend(msg)
    \/ ChanClose
    \/ \E plen \in 0..MaxBuf : RchanReadCall(plen)
    \/ RchanReceiveMsg
    \/ RchanReceiveClosed

vars == <<captureVars, readerVars>>

Init == InitCapture /\ InitReaderUnused /\ InitRchanUnused

Next ==
    \/ StartConnect
    \/ StartPipeOk
    \/ StartPipeFail
    \/ StartSwap
    \/ StartGoPipe
    \/ StartGoRelay
    \/ StartReturn
    \/ \E b \in ByteVals : SinkWrite(b)
    \/ CaptureEndCall
    \/ StopSignal1
    \/ StopSignal2
    \/ StopDisconnect
    \/ PipeGoCapture
    \/ PipeCloseWrt
    \/ PipeRestore
    \/ \E n \in 1..MaxWrite : CopyRead(n)
    \/ CopyEOF
    \/ CopyPanic
    \/ ProcessExit
    \/ CopyCloseRdr
    \/ CopySkip
    \/ CopyPublish
    \/ CopyDisconnect
    \/ RelayForward
    \/ RelayRangeEnd
    \/ RelayClose
    \/ OutputClosedSeen

Spec == Init /\ [][Next]_vars

SpecRstrings == InitRstrings /\ [][NextRstrings]_vars

SpecRchan == InitRchan /\ [][NextRchan]_vars

\* The Go scheduler runs every runnable goroutine: each step of captureEnd
\* and of the three tasks is taken once it stays enabled, and the holder of
\* the output stream keeps receiving.  Starting a session, writing to the
\* sink and calling captureEnd are the caller's choice and get no fairness;
\* nor does a failing read of the pipe, which is up to the system.
Fairness ==
    /\ WF_vars(StopSignal1)
    /\ WF_vars(StopSignal2)
    /\ WF_vars(StopDisconnect)
    /\ WF_vars(PipeGoCapture)
    /\ WF_vars(PipeCloseWrt)
    /\ WF_vars(PipeRestore)
    /\ WF_vars(\E n \in 1..MaxWrite : CopyRead(n))
    /\ WF_vars(CopyEOF)
    /\ WF_vars(ProcessExit)
    /\ WF_vars(CopyCloseRdr)
    /\ WF_vars(CopySkip)
    /\ WF_vars(CopyPublish)
    /\ WF_vars(CopyDisconnect)
    /\ WF_vars(RelayForward)
    /\ WF_vars(RelayRangeEnd)
    /\ WF_vars(RelayClose)
    /\ WF_vars(OutputClosedSeen)

FairSpec == Init /\ [][Next]_vars /\ Fairness

\* The session with a caller that may invoke captureEnd a second time.
NextDoubleStop ==
    \/ Next
    \/ CaptureEndCallAgain
    \/ StopSendFaults

SpecDoubleStop == Init /\ [][NextDoubleStop]_vars

\* ------------------------------------------------------------------------
\* Properties of the capture session.
\* ------------------------------------------------------------------------

\* positions of the caller before captureEnd is invoked
BeforeStop == {"idle", "L273", "L277", "L285", "L286", "L288", "capturing"}

\* what the output stream has to deliver for the bytes B
Payloads(B) == IF B = <<>> THEN <<>> ELSE <<B>>

\* C1: once captureEnd is past its second send (about to disconnect, or
\* returned), the sink slot holds the value it had before FileCaptureStart
\* and the pipe write end is closed.
C1_StopReturnsAfterRestore ==
    caller \in {"L301", "stopped"} => (osf = "file" /\ wrt = "closed")

C1_Witness ==
    caller = "stopped" /\ osf = "file" /\ wrt = "closed" /\ hist.restores = 1

\* a read of the pipe has failed and wfileCapture has panicked
ReadFailed == copy \in {"panicked", "exited"}

\* C2: from the invocation of captureEnd on, the receiver of the output
\* stream eventually has seen it closed, having received exactly one payload
\* equal to the bytes written to the sink, or no payload when nothing was
\* written; and it never holds anything else when it sees the close.
C2_NoBytesLost ==
    /\ (caller = "L297") ~> (consumer = "eof" /\ delivered = Payloads(written))
    /\ [](consumer = "eof" => delivered = Payloads(written))

\* a task has ended: its function has returned, or the process it ran in
\* has ended
Ended(task) == task = "done" \/ ~ Running

\* C3: from the invocation of captureEnd on, wfilePipe, wfileCapture and
\* cvrtToStringChan all eventually end; none of them waits forever in a
\* send, a receive or the pipe read.
C3_TasksTerminate ==
    (caller = "L297") ~> (Ended(lifecycle) /\ Ended(copy) /\ Ended(relay))

C3_Witness ==
    /\ caller = "stopped"
    /\ consumer = "eof"
    /\ lifecycle = "done" /\ copy = "done" /\ relay = "done"
    /\ written # <<>>

\* C4: the pipe write end is closed at most once and the sink slot restored
\* at most once, both exactly once when captureEnd has returned, and the slot
\* is never restored while the write end is not closed.
C4_CloseOnceRestoreOnceInOrder ==
    /\ hist.wrtCloses <= 1
    /\ hist.restores <= 1
    /\ hist.restores >= 1 => (hist.wrtCloses >= 1 /\ wrt = "closed")
    /\ caller = "stopped" => (hist.wrtCloses = 1 /\ hist.restores = 1)

C4_Witness ==
    caller = "stopped" /\ hist.wrtCloses = 1 /\ hist.restores = 1

\* C5 as stated: the output stream is closed once, only after the disconnect
\* from the data bus, and the disconnect happens only after the payload was
\* published AND forwarded onto the output stream.
C5_Original ==
    /\ hist.outCloses <= 1
    /\ out = "closed" => capOut = "closed"
    /\ capOut = "closed" =>
          /\ hist.published = Len(Payloads(buf))
          /\ Len(delivered) = hist.published

\* C5 amended: the output stream is closed at most once, and exactly once
\* when cvrtToStringChan has returned; it is closed only after wfileCapture
\* has disconnected from the data bus and only after every published payload
\* was received from the output stream; the disconnect happens only after
\* the payload (if any) was published, or after a read of the pipe failed,
\* and then nothing was published; after the close the relay sends nothing
\* more.
C5_CloseAfterDisconnectAndDelivery ==
    /\ hist.outCloses <= 1
    /\ relay = "done" => hist.outCloses = 1
    /\ out = "closed" =>
          /\ capOut = "closed" /\ (copy = "done" \/ ReadFailed)
          /\ Len(delivered) = hist.published
          /\ relay = "done"
    /\ capOut = "closed" =>
          \/ copy = "done" /\ hist.published = Len(Payloads(buf))
          \/ ReadFailed /\ hist.published = 0

C5_Witness ==
    out = "closed" /\ hist.published = 1 /\ delivered = <<written>>

\* C6 (two reachable situations, neither excluded by the protocol).
\* captureEnd has returned while the payload is neither delivered nor the
\* stream closed:
C6_StopReturnedOutputPending ==
    caller = "stopped" /\ written # <<>> /\ delivered = <<>> /\ out = "open"

\* the stream is already closed, with nothing captured, while captureEnd is
\* still waiting in its second send:
C6_OutputClosedStopPending ==
    caller = "L299" /\ written = <<>> /\ out = "closed"

\* C7: when os.Pipe fails FileCaptureStart returns the error with no output
\* stream and no stop function, the slot keeps its value and no task exists.
C7_PipeFailureLeavesIdle ==
    (caller = "failed" \/ ret.err = "errp") =>
        /\ caller = "failed"
        /\ ret = [output |-> "nil", captureEnd |-> "nil", err |-> "errp"]
        /\ osf = "file"
        /\ lifecycle = "unborn" /\ copy = "unborn" /\ relay = "unborn"
        /\ out = "none" /\ wrt = "none" /\ rdr = "none"

C7_Witness ==
    caller = "failed" /\ ret.err = "errp"

\* C8: wfileCapture has seen end of file on the pipe only if wfilePipe has
\* closed the write end after the first control signal; before captureEnd
\* is invoked nothing is published or delivered, the output stream is not
\* closed and its receiver is still waiting.
C8_NothingBeforeStop ==
    /\ copy \in {"L323", "L324", "L317", "done"} =>
          /\ hist.wrtCloses >= 1
          /\ lifecycle \in {"L312", "L314", "done"}
    /\ caller \in BeforeStop =>
          /\ hist.published = 0
          /\ delivered = <<>>
          /\ out # "closed"
          /\ consumer = "recv"

\* ------------------------------------------------------------------------
\* Properties of Rstrings.
\* ------------------------------------------------------------------------

\* the bytes a reader over list with delimiter d has to produce
RECURSIVE Expected(_, _)
Expected(list, d) ==
    IF list = <<>> THEN <<>>
    ELSE Head(list) \o d \o Expected(Tail(list), d)

IsPrefix(s, t) == Len(s) <= Len(t) /\ SubSeq(t, 1, Len(s)) = s

\* C9: for a non-empty list, no delimiter and an end hook that returns, the
\* bytes returned so far are a prefix of the concatenated elements; a Read
\* that returns EOF returns count 0 and by then all of the concatenation was
\* returned; every Read with a non-empty buffer after an EOF is (0, EOF).
C9_ReadsReconstructList ==
    (m.list # <<>> /\ m.delim = <<>> /\ m.block = "returns") =>
        /\ IsPrefix(rdrOut, Expected(m.list, <<>>))
        /\ rdrLast.err = "EOF" =>
              (rdrLast.n = 0 /\ rdrOut = Expected(m.list, <<>>))
        /\ (rdrLast.afterEOF /\ rdrLast.len > 0) =>
              (rdrLast.err = "EOF" /\ rdrLast.n = 0)

C9_Witness ==
    /\ Len(m.list) >= 2 /\ m.delim = <<>> /\ m.block = "returns"
    /\ rdrHist.splitElem
    /\ rdrLast.afterEOF /\ rdrLast.len > 0 /\ rdrLast.err = "EOF"
    /\ rdrOut = Expected(m.list, <<>>)
    /\ Len(rdrOut) >= 4

\* C10: with a delimiter d the bytes returned so far are a prefix of the
\* concatenation of element ++ d over the list, and are all of it once a
\* Read reports EOF or is held in the end hook.
C10_DelimiterAfterEachElement ==
    m.delim # <<>> =>
        /\ IsPrefix(rdrOut, Expected(m.list, m.delim))
        /\ (rdrLast.err = "EOF" \/ rdrState = "blocked") =>
              rdrOut = Expected(m.list, m.delim)

C10_Witness ==
    /\ Len(m.list) >= 2 /\ Len(m.delim) = 2
    /\ rdrHist.splitDelim /\ rdrHist.splitElem
    /\ rdrLast.err = "EOF"
    /\ rdrOut = Expected(m.list, m.delim)

Min(a, b) == IF a <= b THEN a ELSE b

\* the number of element and delimiter bytes not returned before the last
\* Read call
RemainingBefore ==
    Len(Expected(m.list, m.delim)) - (Len(rdrOut) - Len(rdrLast.data))

\* C11: a Read with a non-empty buffer returns min(len(p), R) bytes, R being
\* the number of bytes not returned by earlier calls.
C11_CountIsMinOfBufferAndRemaining ==
    rdrLast.len > 0 =>
        /\ rdrLast.n = Min(rdrLast.len, RemainingBefore)
        /\ Len(rdrLast.data) = rdrLast.n

\* a full buffer that took the end of one element, its delimiter and the
\* start of the next element
C11_Witness ==
    /\ rdrLast.len >= 3 /\ rdrLast.n = rdrLast.len
    /\ m.delim # <<>> /\ m.lcur >= 1 /\ m.ccur > 0
    /\ rdrLast.data[1] \in {"a", "b"}
    /\ RemainingBefore > rdrLast.len

\* C12: a Read with an empty buffer returns (0, nil), runs no hook and
\* leaves the reader as it was, in every state of the reader.
C12_EmptyBufferReadChangesNothing ==
    [][RstringsRead(0) =>
          /\ m' = m
          /\ rdrState' = rdrState
          /\ rdrOut' = rdrOut
          /\ rdrLast'.n = 0 /\ rdrLast'.err = "nil"
          /\ rdrLast'.calls = <<>>]_vars

\* the last call had an empty buffer and found the cursor inside a delimiter
C12_Witness ==
    rdrLast.len = 0 /\ rdrLast.n = 0 /\ rdrLast.err = "nil" /\ m.dcur > 0

\* C13: end-of-stream comes with count 0 and after the end hook; the call
\* that exhausts the list while copying bytes returns them with no error.
C13_NoEOFWithData ==
    /\ rdrLast.err = "EOF" =>
          /\ rdrLast.n = 0 /\ rdrLast.data = <<>>
          /\ rdrLast.calls = <<"blockBefore", "block">>
    /\ (rdrLast.n > 0 /\ m.lcur = Len(m.list)) => rdrLast.err = "nil"

\* the last call copied the last bytes of the list
C13_Witness ==
    /\ rdrLast.n > 0 /\ rdrLast.err = "nil"
    /\ m.lcur = Len(m.list) /\ Len(m.list) >= 2
    /\ ~ rdrHist.eofSeen

\* ------------------------------------------------------------------------
\* Properties of Rchan.
\* ------------------------------------------------------------------------

\* the unconsumed bytes of the pending message of reader r
Unconsumed(r) == IF r.spos < Len(r.sCur) THEN Len(r.sCur) - r.spos ELSE 0

\* C14: a Read with a non-empty buffer entered with k > 0 unconsumed bytes
\* returns the next min(len(p), k) of them and receives nothing; one entered
\* with none and returning bytes returns the first min(len(p), length) bytes
\* of the message it received last, every message received before it in
\* the call being empty.  (Stated of the state in which the call returns:
\* no later call is under way.)
C14_ReadReturnsBytesOfOneMessage ==
    (rcLast.made /\ rcLast.len > 0 /\ rcCall.pc = "idle") =>
        LET k == Unconsumed(rcLast.entry)
        IN  /\ k > 0 =>
                 /\ rcLast.recvs = 0
                 /\ rcLast.err = "nil"
                 /\ rcLast.n = Min(rcLast.len, k)
                 /\ rcLast.data = SubSeq(rcLast.entry.sCur,
                                         rcLast.entry.spos + 1,
                                         rcLast.entry.spos + rcLast.n)
                 /\ rc.sCur = rcLast.entry.sCur
            /\ (k = 0 /\ rcLast.err = "nil") =>
                 /\ rcLast.recvs >= 1
                 /\ rcLast.n = Min(rcLast.len, Len(rc.sCur))
                 /\ rcLast.n > 0
                 /\ rcLast.data = SubSeq(rc.sCur, 1, rcLast.n)
                 /\ rc.spos = rcLast.n

\* the call returned the rest of the pending message, with room left in the
\* buffer and another message waiting in the channel
C14_Witness ==
    /\ rcLast.made /\ rcLast.recvs = 0
    /\ rcLast.entry.spos > 0
    /\ rcLast.n > 0 /\ rcLast.n < rcLast.len
    /\ cmdLn.queue # <<>> /\ Head(cmdLn.queue) # <<>>

\* C15 as stated, taken for non-empty buffers and a channel that held no
\* message when it was closed: a Read entered after the source channel was
\* closed returns (0, EOF).
C15_Original ==
    (/\ rcLast.made /\ rcLast.len > 0
     /\ rcLast.entryChan.state = "closed"
     /\ rcLast.entryChan.queue = <<>>) =>
        (rcLast.n = 0 /\ rcLast.err = "EOF")

\* C15 amended: a Read with a non-empty buffer entered after the source
\* channel was closed returns (0, EOF) when, at entry, the pending message
\* has no unconsumed byte and the channel holds no message; otherwise it
\* returns bytes of the pending or of a still queued message.
C15_EOFAfterCloseOnceDrained ==
    (rcLast.made /\ rcLast.len > 0 /\ rcLast.entryChan.state = "closed") =>
        /\ (Unconsumed(rcLast.entry) = 0
              /\ \A i \in 1..Len(rcLast.entryChan.queue) :
                    rcLast.entryChan.queue[i] = <<>>)
           <=> (rcLast.n = 0 /\ rcLast.err = "EOF")
        /\ rcLast.err = "nil" => rcLast.n > 0

C15_Witness ==
    /\ rcLast.made /\ rcLast.len > 0
    /\ rcLast.entryChan.state = "closed"
    /\ rcLast.err = "EOF" /\ rcLast.n = 0
    /\ ~ rcLast.afterEOF
    /\ rcOut # <<>>

\* C16: after a Read has returned (0, EOF) the channel is closed and empty,
\* so no later Read waits, and every later Read with a non-empty buffer
\* returns (0, EOF) and no byte.
C16_EOFIsSticky ==
    /\ rcHist.eofSeen => (cmdLn.state = "closed" /\ cmdLn.queue = <<>>)
    /\ (rcLast.made /\ rcLast.afterEOF /\ rcLast.len > 0) =>
          (rcLast.n = 0 /\ rcLast.err = "EOF" /\ rcLast.data = <<>>)
    /\ rcHist.eofSeen => Unconsumed(rc) = 0

C16_Witness ==
    /\ rcLast.made /\ rcLast.afterEOF /\ rcLast.len > 0
    /\ rcLast.err = "EOF"
    /\ Len(rcOut) >= 2

\* C17: a Read with an empty buffer returns (0, nil) at once, receives
\* nothing and leaves sCur and spos alone, also over a nil channel.
C17_EmptyBufferReadReceivesNothing ==
    [][RchanReadCall(0) =>
          /\ rc' = rc
          /\ cmdLn' = cmdLn
          /\ rcCall'.pc = "idle"
          /\ rcOut' = rcOut
          /\ rcLast'.n = 0 /\ rcLast'.err = "nil" /\ rcLast'.recvs = 0]_vars

C17_Witness ==
    rcLast.made /\ rcLast.len = 0 /\ cmdLn.state = "nil" /\ rcCall.pc = "idle"

\* C20 as stated: spos <= len(sCur) in every state.
C20_OffsetWithinPending ==
    rc.spos <= Len(rc.sCur)

\* ------------------------------------------------------------------------
\* Further properties of the capture session.
\* ------------------------------------------------------------------------

\* C18: from the return of FileCaptureStart to the first control receive of
\* wfilePipe the slot holds the pipe write end, both pipe ends are open and
\* wfilePipe has closed and restored nothing; it has done either only when
\* captureEnd is past its first send.
C18_CapturingKeepsRedirection ==
    /\ (caller \in {"capturing", "L297"}) =>
          /\ osf = "wrt"
          /\ wrt = "open" /\ rdr = "open"
          /\ hist.wrtCloses = 0 /\ hist.restores = 0
          /\ lifecycle \in {"L305", "L308"}
    /\ (hist.wrtCloses > 0 \/ hist.restores > 0 \/ osf = "file") =>
          caller \notin ((BeforeStop \ {"idle", "L273", "L277"}) \cup {"L297"})

\* captureEnd waits in its first send, wfilePipe in its first receive
C18_Witness ==
    /\ caller = "L297" /\ lifecycle = "L308"
    /\ written # <<>> /\ buf = written
    /\ osf = "wrt" /\ wrt = "open"

\* C19: once captureEnd has returned wfilePipe has returned too; a second
\* invocation stays in its first send or faults there, never gets past it,
\* and the write end is not closed and the slot not written a second time.
C19_SecondStopDoesNotComplete ==
    /\ caller = "stopped" => lifecycle = "done"
    /\ capCtrl = "closed" =>
          /\ caller \in {"stopped", "L297", "panic"}
          /\ lifecycle = "done"
    /\ hist.wrtCloses <= 1 /\ hist.restores <= 1
    /\ caller \in {"L297", "panic"} /\ capCtrl = "closed" =>
          (hist.wrtCloses = 1 /\ hist.restores = 1 /\ osf = "file")

\* the second invocation waits in its first send
C19_Witness ==
    caller = "L297" /\ capCtrl = "closed" /\ lifecycle = "done"

\* ------------------------------------------------------------------------
\* Further properties of Rstrings and Rchan.
\* ------------------------------------------------------------------------

\* the number of bytes of the stream that lie before the cursors of mm
Position(mm) ==
    Len(Expected(SubSeq(mm.list, 1, mm.lcur), mm.delim)) + mm.ccur + mm.dcur

\* the cursors of mm point into the list, or past it with ccur = dcur = 0
CursorsInRange(mm) ==
    /\ mm.lcur <= Len(mm.list)
    /\ mm.lcur < Len(mm.list) =>
          /\ mm.ccur <= Len(mm.list[mm.lcur + 1])
          /\ IF mm.delim = <<>> THEN mm.dcur = 0
                                ELSE mm.dcur < Len(mm.delim)
          /\ mm.dcur # 0 => mm.ccur = Len(mm.list[mm.lcur + 1])
    /\ mm.lcur = Len(mm.list) => (mm.ccur = 0 /\ mm.dcur = 0)

\* C21: after every Read the cursors are in range and stand at the next
\* byte not yet returned; lcur never decreases, and once lcur = len(list)
\* no Read changes lcur, ccur or dcur.
C21_CursorsPointAtNextByte ==
    /\ [](CursorsInRange(m) /\ Len(rdrOut) = Position(m))
    /\ [][/\ m'.lcur >= m.lcur
          /\ m.lcur = Len(m.list) =>
                (m'.lcur = m.lcur /\ m'.ccur = 0 /\ m'.dcur = 0)]_vars

\* a two-element list with a two-byte delimiter, read in pieces that ended
\* inside an element and inside a delimiter, and read again after its end
C21_Witness ==
    /\ Len(m.list) = 2 /\ Len(m.delim) = 2
    /\ rdrHist.splitElem /\ rdrHist.splitDelim
    /\ m.lcur = Len(m.list)
    /\ rdrLast.afterEOF /\ rdrLast.len > 0

\* C22: blockBefore runs once, first, in every Read with a non-empty buffer
\* and in no other; block runs exactly in the calls with a non-empty buffer
\* that end with the list exhausted and nothing copied; EOF is returned only
\* after block returned; a reader whose block never returns reports no EOF
\* and is held in the first Read with a non-empty buffer made after all
\* bytes were returned.
C22_HooksAndEndOfStream ==
    /\ rdrLast.len = 0 => rdrLast.calls = <<>>
    /\ rdrLast.len > 0 =>
          rdrLast.calls \in {<<"blockBefore">>, <<"blockBefore", "block">>}
    /\ (\E i \in 1..Len(rdrLast.calls) : rdrLast.calls[i] = "block") <=>
          (rdrLast.len > 0 /\ m.lcur = Len(m.list) /\ rdrLast.n = 0)
    /\ rdrLast.err = "EOF" =>
          (rdrLast.calls = <<"blockBefore", "block">> /\ m.block = "returns")
    /\ rdrState = "blocked" <=>
          (m.block = "forever"
           /\ rdrLast.calls = <<"blockBefore", "block">>)
    /\ m.block = "forever" =>
          /\ ~ rdrHist.eofSeen
          /\ (rdrLast.len > 0 /\ RemainingBefore = 0) => rdrState = "blocked"

\* a console reader held in its end hook after both lines were returned
C22_Witness ==
    /\ m = [NewConsole(m.list) EXCEPT !.lcur = 2]
    /\ Len(m.list) = 2
    /\ rdrState = "blocked"
    /\ rdrOut = Expected(m.list, <<"n">>)
    /\ rdrHist.splitElem

\* the messages ms, concatenated in order
RECURSIVE Flatten(_)
Flatten(ms) == IF ms = <<>> THEN <<>> ELSE Head(ms) \o Flatten(Tail(ms))

\* the bytes of the pending message of reader r that are not yet returned
PendingBytes(r) ==
    IF r.spos < Len(r.sCur) THEN SubSeq(r.sCur, r.spos + 1, Len(r.sCur))
                            ELSE <<>>

\* C23: the bytes returned, then the bytes pending, then the messages not
\* yet received are the messages sent, in order; at the first EOF the bytes
\* returned are all the messages sent; a Read with a non-empty buffer that
\* returns no error returns at least one byte.
C23_ReadsReconstructMessages ==
    /\ rcOut \o PendingBytes(rc) \o Flatten(cmdLn.queue) = Flatten(rcHist.sent)
    /\ rcHist.eofSeen => rcOut = Flatten(rcHist.sent)
    /\ (rcLast.made /\ rcLast.len > 0 /\ rcLast.err = "nil") =>
          (rcLast.n > 0 /\ Len(rcLast.data) = rcLast.n)

\* an empty message and a message split over two calls, read up to EOF
C23_Witness ==
    /\ rcHist.eofSeen
    /\ Len(rcHist.sent) = 2
    /\ rcHist.sent[1] = <<>>
    /\ Len(rcOut) >= 2
    /\ rcOut = Flatten(rcHist.sent)
====
